---- MODULE Spec2Model ----
(***************************************************************************)
(* A model of tenable.nessus: the filter translator                        *)
(* NessusEndpoint._parse_filters (base.py) as a step machine over its      *)
(* for-loop, and the one-or-many endpoint methods of AgentsAPI (agents.py) *)
(* and AgentGroupsAPI (agent_groups.py) as one action per call.            *)
(*                                                                         *)
(* A Python value is a record [t, v]: t is its type ("str" or "int") and   *)
(* v its text, i.e. what '{}'.format(value) produces.                      *)
(***************************************************************************)
EXTENDS Integers, Sequences, FiniteSets, TLC

VARIABLES
    finput,     \* _parse_filters: the list of filter tuples (base.py:6)
    filterset,  \* _parse_filters: the schema of the allowed filters (base.py:6)
    rtype,      \* _parse_filters: the filter format (base.py:6)
    pc,         \* _parse_filters: "loop", "encode", "returned" or "raised"
    pos,        \* _parse_filters: tuples the for-loop has completed (base.py:26)
    cur,        \* _parse_filters: the locals fname, foper, fval (base.py:30-38)
    resp,       \* _parse_filters: the accumulator resp (base.py:25)
    ret,        \* _parse_filters: <<>> or <<the mapping returned>> (base.py:64)
    err,        \* _parse_filters: the exception raised, NoErr if none
    call,       \* endpoint method called, with its arguments
    requests,   \* requests handed to the transport self._api
    outcome     \* "idle", "returned" or the exception the call raised

vars == <<finput, filterset, rtype, pc, pos, cur, resp, ret, err,
          call, requests, outcome>>

endpointVars == <<call, requests, outcome>>

\* Longest list of filter tuples handed to _parse_filters.
MaxFilters == 3

\* Largest number of ids handed to a one-or-many endpoint method.
MaxIds == 3

(***************************************************************************)
(* Python values                                                           *)
(***************************************************************************)
PyStr(s) == [t |-> "str", v |-> s]

PyInt(s) == [t |-> "int", v |-> s]

None == "None"

NoErr == [exc |-> "", param |-> "", obj |-> ""]

Raise(exc, param, obj) == [exc |-> exc, param |-> param, obj |-> obj]

Digits == <<"0", "1", "2", "3", "4", "5", "6", "7", "8", "9">>

\* '{}'.format(i) for a non-negative int i.
RECURSIVE IntStr(_)
IntStr(n) == IF n < 10 THEN Digits[n + 1]
             ELSE IntStr(n \div 10) \o Digits[(n % 10) + 1]

\* dict[k] = v
DictSet(d, k, v) == [x \in (DOMAIN d) \cup {k} |-> IF x = k THEN v ELSE d[x]]

EmptyDict == <<>>

(***************************************************************************)
(* The filter schema ("filterset") and the inputs                          *)
(***************************************************************************)
StateSchema ==
    [n \in {"state"} |->
        [operators |-> {"eq"}, choices |-> {"open", "closed"}, pattern |-> None]]

PortSchema ==
    [n \in {"state", "port"} |->
        IF n = "state"
        THEN [operators |-> {"eq", "neq"}, choices |-> {"open", "closed"}, pattern |-> None]
        ELSE [operators |-> {"eq"}, choices |-> {}, pattern |-> "^[0-9]+$"]]

FilterSets == {StateSchema, PortSchema}

FilterNames == {PyStr("state"), PyStr("port"), PyStr("bogus")}

FilterOperators == {PyStr("eq"), PyStr("neq")}

FilterValues == {PyStr("open"), PyStr("80"), PyStr("bogus")}

\* Tuples whose fields are not all strings.
UntypedTuples == { <<PyInt("7"), PyStr("eq"), PyStr("open")>>,
                   <<PyStr("state"), PyStr("eq"), PyInt("80")>> }

FilterTuples == (FilterNames \X FilterOperators \X FilterValues) \cup UntypedTuples

RTypes == {"sjson", "json", "colon"}

RECURSIVE SeqsUpTo(_, _)
SeqsUpTo(S, n) == IF n = 0 THEN {<<>>}
                  ELSE LET shorter == SeqsUpTo(S, n - 1)
                       IN  shorter \cup { Append(s, x) : s \in shorter, x \in S }

(***************************************************************************)
(* APIEndpoint._check (tenable/base.py): type, choices and pattern checks  *)
(***************************************************************************)
\* The values of the model that a pattern matches (full-string match).
Matches(pattern, s) ==
    CASE pattern = "^[0-9]+$" -> s \in {"80", "7"}
      [] OTHER -> FALSE

Check(name, obj, type, choices, pattern) ==
    IF obj.t # type
    THEN [ok |-> FALSE, val |-> obj, err |-> Raise("TypeError", name, obj.v)]
    ELSE IF choices # {} /\ obj.v \notin choices
    THEN [ok |-> FALSE, val |-> obj, err |-> Raise("UnexpectedValueError", name, obj.v)]
    ELSE IF pattern # None /\ ~Matches(pattern, obj.v)
    THEN [ok |-> FALSE, val |-> obj, err |-> Raise("UnexpectedValueError", name, obj.v)]
    ELSE [ok |-> TRUE, val |-> obj, err |-> NoErr]

(***************************************************************************)
(* _parse_filters: validation of one tuple (base.py lines 30-38)           *)
(***************************************************************************)
NoLocals == [fname |-> PyStr(""), foper |-> PyStr(""), fval |-> PyStr("")]

Failed(e) == [ok |-> FALSE, err |-> e, locals |-> NoLocals]

\* f[0] not in filterset
NotInFilterset(f, fs) == f[1].v \notin DOMAIN fs

\* The membership test left out: the lookup filterset[f[0]] raises instead.
NotFilterableKeyError(f) == Raise("KeyError", "filterable option", f[1].v)

\* UnexpectedValueError('{} is not a filterable option'.format(f[0]))
NotFilterable(f) == Raise("UnexpectedValueError", "filterable option", f[1].v)

\* The operator checked for its type alone.
OperatorChoicesNone(f, fs) == {}

\* choices=filterset[f[0]]['operators']
OperatorChoices(f, fs) == fs[f[1].v].operators

\* choices=filterset[f[0]]['choices']
ValueChoices(f, fs) == fs[f[1].v].choices

\* The value checked without its pattern.
ValuePatternNone(f, fs) == None

\* pattern=filterset[f[0]]['pattern']
ValuePattern(f, fs) == fs[f[1].v].pattern

\* The value checked before the operator.
ValidateTupleValueFirst(f, fs) ==
    LET n == Check("filter_name", f[1], "str", {}, None) IN
    IF ~n.ok THEN Failed(n.err)
    ELSE IF NotInFilterset(f, fs) THEN Failed(NotFilterable(f))
    ELSE LET v == Check("filter_value", f[3], "str",
                        ValueChoices(f, fs), ValuePattern(f, fs)) IN
    IF ~v.ok THEN Failed(v.err)
    ELSE LET o == Check("filter_operator", f[2], "str", OperatorChoices(f, fs), None) IN
    IF ~o.ok THEN Failed(o.err)
    ELSE [ok |-> TRUE, err |-> NoErr,
          locals |-> [fname |-> n.val, foper |-> o.val, fval |-> v.val]]

ValidateTuple(f, fs) ==
    LET n == Check("filter_name", f[1], "str", {}, None) IN
    IF ~n.ok THEN Failed(n.err)
    ELSE IF NotInFilterset(f, fs) THEN Failed(NotFilterable(f))
    ELSE LET o == Check("filter_operator", f[2], "str", OperatorChoices(f, fs), None) IN
    IF ~o.ok THEN Failed(o.err)
    ELSE LET v == Check("filter_value", f[3], "str",
                        ValueChoices(f, fs), ValuePattern(f, fs)) IN
    IF ~v.ok THEN Failed(v.err)
    ELSE [ok |-> TRUE, err |-> NoErr,
          locals |-> [fname |-> n.val, foper |-> o.val, fval |-> v.val]]

(***************************************************************************)
(* _parse_filters: encoding of one tuple (base.py lines 40-62)             *)
(***************************************************************************)
\* finput.index(f): the 0-based position of the first element equal to f.
Index(s, f) == (CHOOSE i \in 1..Len(s) :
                    s[i] = f /\ \A j \in 1..(i - 1) : s[j] # f) - 1

ExpandedKey(i, field) == "filter." \o IntStr(i) \o "." \o field

EncodeSjson(r, fin, f, l) ==
    LET i  == Index(fin, f)
        r1 == DictSet(r, ExpandedKey(i, "filter"), l.fname)
        r2 == DictSet(r1, ExpandedKey(i, "quality"), l.foper)
    IN  DictSet(r2, ExpandedKey(i, "value"), l.fval)

\* The record put at the front of the list instead of its end.
EncodeJsonPrepend(r, l) ==
    LET r1 == IF "filters" \notin DOMAIN r THEN DictSet(r, "filters", <<>>) ELSE r
    IN  DictSet(r1, "filters",
                <<[filter |-> l.fname, quality |-> l.foper, value |-> l.fval]>>
                    \o r1["filters"])

EncodeJson(r, l) ==
    LET r1 == IF "filters" \notin DOMAIN r THEN DictSet(r, "filters", <<>>) ELSE r
    IN  DictSet(r1, "filters",
                Append(r1["filters"],
                       [filter |-> l.fname, quality |-> l.foper, value |-> l.fval]))

\* '{}:{}:{}'.format(fname, foper, fval)
ColonFormat(l) == l.fname.v \o ":" \o l.foper.v \o ":" \o l.fval.v

\* The colon strings stored under the key of the JSON encoding.
EncodeColonUnderFilters(r, l) ==
    LET r1 == IF "filters" \notin DOMAIN r THEN DictSet(r, "filters", <<>>) ELSE r
    IN  DictSet(r1, "filters", Append(r1["filters"], ColonFormat(l)))

EncodeColon(r, l) ==
    LET r1 == IF "f" \notin DOMAIN r THEN DictSet(r, "f", <<>>) ELSE r
    IN  DictSet(r1, "f", Append(r1["f"], ColonFormat(l)))

EncodeTuple(r, rt, fin, f, l) ==
    LET a == IF rt = "sjson" THEN EncodeSjson(r, fin, f, l) ELSE r
        b == IF rt = "json" THEN EncodeJson(a, l) ELSE a
    IN  IF rt = "colon" THEN EncodeColon(b, l) ELSE b

(***************************************************************************)
(* _parse_filters as a step machine                                        *)
(***************************************************************************)
NoGroup == [t |-> "NoneType", v |-> "None"]

NoCall == [method |-> "", group_id |-> NoGroup, ids |-> <<>>, transportOk |-> TRUE]

FilterInit ==
    /\ finput \in SeqsUpTo(FilterTuples, MaxFilters)
    /\ filterset \in FilterSets
    /\ rtype \in RTypes
    /\ pc = "loop"
    /\ pos = 0
    /\ cur = NoLocals
    /\ resp = EmptyDict
    /\ ret = <<>>
    /\ err = NoErr

EndpointIdle ==
    /\ call = NoCall
    /\ requests = <<>>
    /\ outcome = "idle"

Init == FilterInit /\ EndpointIdle

\* The loop takes the next tuple and its checks pass.
ValidateOk ==
    /\ pc = "loop"
    /\ pos < Len(finput)
    /\ LET v == ValidateTuple(finput[pos + 1], filterset) IN
        /\ v.ok
        /\ cur' = v.locals
        /\ pc' = "encode"
    /\ UNCHANGED <<finput, filterset, rtype, pos, resp, ret, err>>
    /\ UNCHANGED endpointVars

\* The loop takes the next tuple and one of its checks raises.
ValidateRaise ==
    /\ pc = "loop"
    /\ pos < Len(finput)
    /\ LET v == ValidateTuple(finput[pos + 1], filterset) IN
        /\ ~v.ok
        /\ err' = v.err
        /\ pc' = "raised"
    /\ UNCHANGED <<finput, filterset, rtype, pos, cur, resp, ret>>
    /\ UNCHANGED endpointVars

\* The validated tuple is written into resp and the loop moves on.
Encode ==
    /\ pc = "encode"
    /\ resp' = EncodeTuple(resp, rtype, finput, finput[pos + 1], cur)
    /\ pos' = pos + 1
    /\ pc' = "loop"
    /\ UNCHANGED <<finput, filterset, rtype, cur, ret, err>>
    /\ UNCHANGED endpointVars

\* The loop is exhausted: return resp.
Return ==
    /\ pc = "loop"
    /\ pos = Len(finput)
    /\ ret' = <<resp>>
    /\ pc' = "returned"
    /\ UNCHANGED <<finput, filterset, rtype, pos, cur, resp, err>>
    /\ UNCHANGED endpointVars

Next == ValidateOk \/ ValidateRaise \/ Encode \/ Return

Spec == Init /\ [][Next]_vars

(***************************************************************************)
(* The one-or-many endpoint methods (agents.py, agent_groups.py)           *)
(***************************************************************************)
Ids == {PyInt("1"), PyInt("2"), PyStr("x")}

GroupIds == {PyInt("5"), PyStr("g")}

NoJson == <<>>

\* json={'ids': [...]}
IdsJson(ids) == <<[ids |-> ids]>>

Request(m, p, j) == [method |-> m, path |-> p, json |-> j]

\* self._api.put(...) / self._api.delete(...): the request goes out, and the
\* call raises when the transport fails.
Issue(req, tok) == [sent |-> <<req>>, exc |-> IF tok THEN "" ELSE "APIError"]

\* An exception raised while the arguments of the transport call are evaluated.
Raised(e) == [sent |-> <<>>, exc |-> e]

CheckInt(name, obj) == Check(name, obj, "int", {}, None)

\* [self._check(name, i, int) for i in ids]
CheckIds(name, ids) == \A i \in 1..Len(ids) : CheckInt(name, ids[i]).ok

\* AgentGroupsAPI.add_agent(group_id, *agent_ids)
add_agent(group_id, agent_ids, tok) ==
    IF Len(agent_ids) <= 1
    THEN IF ~CheckInt("group_id", group_id).ok THEN Raised("TypeError")
         ELSE IF Len(agent_ids) = 0 THEN Raised("IndexError")
         ELSE IF ~CheckInt("agent_id", agent_ids[1]).ok THEN Raised("TypeError")
         ELSE Issue(Request("PUT", "agent-groups/" \o group_id.v \o "/agents/"
                                       \o agent_ids[1].v, NoJson), tok)
    ELSE IF ~CheckInt("group_id", group_id).ok THEN Raised("TypeError")
         ELSE IF ~CheckIds("agent_id", agent_ids) THEN Raised("TypeError")
         ELSE Issue(Request("PUT", "agent-groups/" \o group_id.v \o "/agents",
                            IdsJson(agent_ids)), tok)

\* AgentGroupsAPI.delete(*group_ids)
delete_groups(group_ids, tok) ==
    IF Len(group_ids) <= 1
    THEN IF Len(group_ids) = 0 THEN Raised("IndexError")
         ELSE IF ~CheckInt("group_id", group_ids[1]).ok THEN Raised("TypeError")
         ELSE Issue(Request("DELETE", "agent-groups/" \o group_ids[1].v, NoJson), tok)
    ELSE IF ~CheckIds("group_id", group_ids) THEN Raised("TypeError")
         ELSE Issue(Request("DELETE", "agent-groups", IdsJson(group_ids)), tok)

\* AgentGroupsAPI.delete_agent(group_id, *agent_ids)
delete_agent(group_id, agent_ids, tok) ==
    IF Len(agent_ids) <= 1
    THEN IF ~CheckInt("group_id", group_id).ok THEN Raised("TypeError")
         ELSE IF Len(agent_ids) = 0 THEN Raised("IndexError")
         ELSE IF ~CheckInt("agent_id", agent_ids[1]).ok THEN Raised("TypeError")
         ELSE Issue(Request("DELETE", "agent-groups/" \o group_id.v \o "/agents/"
                                          \o agent_ids[1].v, NoJson), tok)
    ELSE IF ~CheckInt("group_id", group_id).ok THEN Raised("TypeError")
         ELSE IF ~CheckIds("agent_ids", agent_ids) THEN Raised("TypeError")
         ELSE Issue(Request("DELETE", "agent-groups/" \o group_id.v \o "/agents/",
                            IdsJson(agent_ids)), tok)

\* AgentsAPI.delete(*agent_ids)
delete_agents(agent_ids, tok) ==
    IF Len(agent_ids) = 1
    THEN Issue(Request("DELETE", "agents/" \o agent_ids[1].v, NoJson), tok)
    ELSE IF ~CheckIds("agent_ids", agent_ids) THEN Raised("TypeError")
         ELSE Issue(Request("DELETE", "agents", IdsJson(agent_ids)), tok)

\* AgentsAPI.unlink(*agent_ids); the bulk branch reads the undefined name
\* scanner_id while building the path.
unlink(agent_ids, tok) ==
    IF Len(agent_ids) <= 1
    THEN IF Len(agent_ids) = 0 THEN Raised("IndexError")
         ELSE IF ~CheckInt("agent_id", agent_ids[1]).ok THEN Raised("TypeError")
         ELSE Issue(Request("DELETE", "agents/" \o agent_ids[1].v \o "/unlink",
                            NoJson), tok)
    ELSE Raised("NameError")

IdArgs == SeqsUpTo(Ids, MaxIds)

\* What a call leaves behind: the requests it sent and how it ended.
Finish(result) ==
    /\ requests' = requests \o result.sent
    /\ outcome' = IF result.exc = "" THEN "returned" ELSE result.exc
    /\ UNCHANGED <<finput, filterset, rtype, pc, pos, cur, resp, ret, err>>

AddAgent ==
    \E g \in GroupIds, ids \in IdArgs, tok \in BOOLEAN :
        /\ outcome = "idle"
        /\ call' = [method |-> "agent_groups.add_agent", group_id |-> g,
                    ids |-> ids, transportOk |-> tok]
        /\ Finish(add_agent(g, ids, tok))

DeleteGroups ==
    \E ids \in IdArgs, tok \in BOOLEAN :
        /\ outcome = "idle"
        /\ call' = [method |-> "agent_groups.delete", group_id |-> NoGroup,
                    ids |-> ids, transportOk |-> tok]
        /\ Finish(delete_groups(ids, tok))

DeleteAgent ==
    \E g \in GroupIds, ids \in IdArgs, tok \in BOOLEAN :
        /\ outcome = "idle"
        /\ call' = [method |-> "agent_groups.delete_agent", group_id |-> g,
                    ids |-> ids, transportOk |-> tok]
        /\ Finish(delete_agent(g, ids, tok))

DeleteAgents ==
    \E ids \in IdArgs, tok \in BOOLEAN :
        /\ outcome = "idle"
        /\ call' = [method |-> "agents.delete", group_id |-> NoGroup,
                    ids |-> ids, transportOk |-> tok]
        /\ Finish(delete_agents(ids, tok))

Unlink ==
    \E ids \in IdArgs, tok \in BOOLEAN :
        /\ outcome = "idle"
        /\ call' = [method |-> "agents.unlink", group_id |-> NoGroup,
                    ids |-> ids, transportOk |-> tok]
        /\ Finish(unlink(ids, tok))

\* No filter translation is running.
FilterIdle ==
    /\ finput = <<>>
    /\ filterset = StateSchema
    /\ rtype = "sjson"
    /\ pc = "idle"
    /\ pos = 0
    /\ cur = NoLocals
    /\ resp = EmptyDict
    /\ ret = <<>>
    /\ err = NoErr

InitEndpoints == FilterIdle /\ EndpointIdle

NextEndpoints == AddAgent \/ DeleteGroups \/ DeleteAgent \/ DeleteAgents \/ Unlink

SpecEndpoints == InitEndpoints /\ [][NextEndpoints]_vars

(***************************************************************************)
(* Properties of _parse_filters, checked under Spec                        *)
(***************************************************************************)
\* The check of a tuple that the schema says fails first, in the order
\* name, operator, value ("none" for a valid tuple).
FirstFailure(f, fs) ==
    IF f[1].t # "str" \/ f[1].v \notin DOMAIN fs THEN "name"
    ELSE IF f[2].t # "str" \/ f[2].v \notin fs[f[1].v].operators THEN "operator"
    ELSE IF \/ f[3].t # "str"
            \/ fs[f[1].v].choices # {} /\ f[3].v \notin fs[f[1].v].choices
            \/ fs[f[1].v].pattern # None /\ ~Matches(fs[f[1].v].pattern, f[3].v)
         THEN "value"
    ELSE "none"

\* The check an error reports.
ReportedCheck(e) ==
    CASE e.param \in {"filter_name", "filterable option"} -> "name"
      [] e.param = "filter_operator" -> "operator"
      [] e.param = "filter_value" -> "value"
      [] OTHER -> "none"

\* The sequence stored under key k, empty when the key is absent.
SeqAt(r, k) == IF k \in DOMAIN r THEN r[k] ELSE <<>>

AllStrings(f) == \A k \in 1..3 : f[k].t = "str"

\* C1: with rtype = 'sjson' the returned mapping has exactly 3*N keys, the
\* keys filter.<i>.filter, filter.<i>.quality and filter.<i>.value for every
\* index i in 0..N-1, holding the name, operator and value of input tuple i
\* (repeated identical tuples allowed).
C1_ExpandedKeys ==
    (pc = "returned" /\ rtype = "sjson") =>
        LET r == ret[1]
            N == Len(finput)
        IN  /\ Cardinality(DOMAIN r) = 3 * N
            /\ \A i \in 0..(N - 1) :
                /\ ExpandedKey(i, "filter") \in DOMAIN r
                /\ ExpandedKey(i, "quality") \in DOMAIN r
                /\ ExpandedKey(i, "value") \in DOMAIN r
                /\ r[ExpandedKey(i, "filter")] = finput[i + 1][1]
                /\ r[ExpandedKey(i, "quality")] = finput[i + 1][2]
                /\ r[ExpandedKey(i, "value")] = finput[i + 1][3]

C3_ReturnedImpliesAllValid ==
    /\ ret # <<>> =>
        /\ pc = "returned"
        /\ \A i \in 1..Len(finput) :
            /\ finput[i][1].v \in DOMAIN filterset
            /\ finput[i][2].v \in filterset[finput[i][1].v].operators
            /\ filterset[finput[i][1].v].choices # {} =>
                   finput[i][3].v \in filterset[finput[i][1].v].choices
    /\ pc = "returned" => ret = <<resp>>

\* A mapping was returned for two tuples, one of them under a choice set.
C3_Witness ==
    /\ ret # <<>>
    /\ Len(finput) = 2
    /\ \E i \in 1..2 : filterset[finput[i][1].v].choices # {}

C5_FailFastInOrder ==
    /\ \A j \in 1..pos : FirstFailure(finput[j], filterset) = "none"
    /\ pc = "raised" =>
        /\ FirstFailure(finput[pos + 1], filterset) # "none"
        /\ ReportedCheck(err) = FirstFailure(finput[pos + 1], filterset)
        /\ ReportedCheck(err) = "name" => err.obj = finput[pos + 1][1].v
        /\ ReportedCheck(err) = "operator" => err.obj = finput[pos + 1][2].v
        /\ ReportedCheck(err) = "value" => err.obj = finput[pos + 1][3].v

\* The first tuple failed while a later one is invalid in another way, and
\* the first tuple itself has a second failing check after the reported one.
C5_Witness ==
    /\ pc = "raised"
    /\ pos = 0
    /\ Len(finput) = 2
    /\ FirstFailure(finput[1], filterset) = "operator"
    /\ finput[1][3].v \notin filterset[finput[1][1].v].choices
    /\ FirstFailure(finput[2], filterset) = "name"

\* Tuples that have passed their checks so far.
Validated == pos + (IF pc = "encode" THEN 1 ELSE 0)

\* Entries of input tuple i (1-based) are in the accumulator.
Written(i) ==
    CASE rtype = "sjson" -> ExpandedKey(i - 1, "filter") \in DOMAIN resp
      [] rtype = "json" -> i <= Len(SeqAt(resp, "filters"))
      [] rtype = "colon" -> i <= Len(SeqAt(resp, "f"))
      [] OTHER -> FALSE

\* C7 as stated: the accumulator is never non-empty while some input tuple
\* is still unvalidated.
C7_ValidateAllBeforeEncode ==
    DOMAIN resp # {} => Validated = Len(finput)

\* C7 amended: the entries of a tuple are written only after that tuple and
\* every tuple before it have passed their checks; later tuples may still be
\* unvalidated, and the accumulator is returned only once all have passed.
C7_ValidateEachBeforeEncode ==
    /\ \A i \in 1..Len(finput) :
        Written(i) =>
            /\ i <= Validated
            /\ \A j \in 1..i : FirstFailure(finput[j], filterset) = "none"
    /\ ret # <<>> => Validated = Len(finput)

\* The first tuple was written and the second one then failed its checks.
C7_Witness ==
    /\ pc = "raised"
    /\ Len(finput) = 2
    /\ Written(1)
    /\ ret = <<>>

\* C8 as stated: for every valid input, the empty one included, the only
\* key of the result is 'filters' (rtype = 'json') or 'f' (rtype = 'colon').
C8_SingleKey ==
    pc = "returned" =>
        /\ rtype = "json" => DOMAIN ret[1] = {"filters"}
        /\ rtype = "colon" => DOMAIN ret[1] = {"f"}

\* C8 amended: for a valid input of at least one tuple the only key is
\* 'filters' (rtype = 'json') or 'f' (rtype = 'colon'); for the empty input
\* the result is the empty mapping.
C8_SingleKeyUnlessEmpty ==
    pc = "returned" =>
        IF Len(finput) = 0
        THEN DOMAIN ret[1] = {}
        ELSE /\ rtype = "json" => DOMAIN ret[1] = {"filters"}
             /\ rtype = "colon" => DOMAIN ret[1] = {"f"}

\* Two tuples were translated into the colon encoding.
C8_Witness ==
    /\ pc = "returned"
    /\ rtype = "colon"
    /\ Len(finput) = 2
    /\ "f" \in DOMAIN ret[1]

(***************************************************************************)
(* Properties of the endpoint methods, checked under SpecEndpoints         *)
(***************************************************************************)
IsInt(x) == x.t = "int"

\* Every identifier of the call is an int.
AllIdsInt ==
    /\ call.group_id # NoGroup => IsInt(call.group_id)
    /\ \A i \in 1..Len(call.ids) : IsInt(call.ids[i])

\* The per-id path of the call.
SingularPath ==
    CASE call.method = "agent_groups.add_agent" ->
            "agent-groups/" \o call.group_id.v \o "/agents/" \o call.ids[1].v
      [] call.method = "agent_groups.delete" -> "agent-groups/" \o call.ids[1].v
      [] call.method = "agent_groups.delete_agent" ->
            "agent-groups/" \o call.group_id.v \o "/agents/" \o call.ids[1].v
      [] call.method = "agents.delete" -> "agents/" \o call.ids[1].v
      [] call.method = "agents.unlink" -> "agents/" \o call.ids[1].v \o "/unlink"

\* C6: with the transport succeeding, a call with one int id sends exactly
\* one request, to the per-id path and without a body, and a call with two
\* or more int ids sends exactly one request whose body is {'ids': ids in
\* argument order}; both complete without raising.
C6_OneOrMany ==
    (outcome # "idle" /\ AllIdsInt /\ call.transportOk) =>
        /\ Len(call.ids) = 1 =>
            /\ outcome = "returned"
            /\ Len(requests) = 1
            /\ requests[1].path = SingularPath
            /\ requests[1].json = NoJson
        /\ Len(call.ids) >= 2 =>
            /\ outcome = "returned"
            /\ Len(requests) = 1
            /\ requests[1].json = <<[ids |-> call.ids]>>

\* C9: a call handed an id (or group_id) that is not an int raises and
\* sends no request.
C9_IdsCheckedBeforeRequest ==
    (outcome # "idle" /\ ~AllIdsInt) =>
        /\ requests = <<>>
        /\ outcome # "returned"

\* C10: a call with zero ids sends no request.
C10_NoRequestWithoutIds ==
    (outcome # "idle" /\ Len(call.ids) = 0) => requests = <<>>

====
